---- MODULE Spec2Model ----
(***************************************************************************)
(* Load-injection plan registry of rucio: the gateway's bulk submission    *)
(* (gateway/loadinjection.py), the core's plan, history and state          *)
(* operations (core/load_injection.py).                                    *)
(*                                                                         *)
(* Every core function is decorated with @read_session or                  *)
(* @transactional_session and is called by the gateway WITHOUT a session   *)
(* argument, so every core call is a transaction of its own: it is one     *)
(* atomic step here, committed when it returns and rolled back when it     *)
(* raises.  The gateway's read of the present plans (line 71) and its      *)
(* insert (line 87) are therefore two steps that other processes may       *)
(* interleave with.                                                        *)
(***************************************************************************)
EXTENDS Integers, Sequences, FiniteSets, TLC

\* ------------------------------------------------------------------ bounds
\* Longest list of plans one call is given.
MaxBatch == 2
\* Number of identifiers generate_uuid hands out before the model stops
\* accepting calls that need one.
MaxUuid == 3

\* Concurrent submitters (REST worker processes).
Procs == {"p1", "p2"}

\* ------------------------------------------------- values of the data model
None == "None"
\* The value of an identifier that is not given.
NoId == 0

WAITING == "waiting"
RUNNING == "running"
COMPLETED == "completed"
EXPIRED == "expired"
ERROR == "error"
CANCELLED == "cancelled"
\* rucio.db.sqla.constants.LoadInjectionState (spec section 4.3).
LoadInjectionState == {WAITING, RUNNING, COMPLETED, EXPIRED, ERROR, CANCELLED}

\* Outcomes of a gateway call, by the exception it raises.
Created == "Created"
AccessDenied == "AccessDenied"
DuplicateLoadInjectionPlan == "DuplicateLoadInjectionPlan"
RucioException == "RucioException"
RSENotFound == "RSENotFound"
KeyError == "KeyError"

\* The RSE catalogue: endpoint name -> internal identifier.
RSEIds == [RSE1 |-> "id1", RSE2 |-> "id2"]
RSENames == DOMAIN RSEIds

\* rucio.core.rse.get_rse_id: the identifier of a known name; an unknown name
\* raises RSENotFound (the callers test RSEKnown before they use the value).
RSEKnown(name) == name \in RSENames
get_rse_id(name) == IF RSEKnown(name) THEN RSEIds[name] ELSE RSENotFound

\* rucio.gateway.permission.has_permission for the action
\* add_load_injection_plans: the privileged account only.
has_permission(issuer, action) ==
    issuer = "root" /\ action = "add_load_injection_plans"
Issuers == {"root", "jdoe"}

\* ---------------------------------------------------------------- inputs
\* Request items as the REST layer hands them to the gateway: the pair
\* RSE1 -> RSE2 and its reverse, a second item for RSE1 -> RSE2 that carries
\* a state and a plan_id of its own, and an item naming an unknown endpoint.
RequestItems ==
    {[src_rse |-> "RSE1", dest_rse |-> "RSE2", inject_rate |-> 100,
      state |-> None, plan_id |-> NoId],
     [src_rse |-> "RSE2", dest_rse |-> "RSE1", inject_rate |-> 100,
      state |-> None, plan_id |-> NoId],
     [src_rse |-> "RSE1", dest_rse |-> "RSE2", inject_rate |-> 50,
      state |-> COMPLETED, plan_id |-> 1],
     [src_rse |-> "NOPE", dest_rse |-> "RSE2", inject_rate |-> 100,
      state |-> None, plan_id |-> NoId]}

SeqsUpTo(S, n) == UNION {[1..k -> S] : k \in 1..n}

\* The (src_rse_id, dest_rse_id) arguments of the core's calls.
Pairs == {[src_rse_id |-> "id1", dest_rse_id |-> "id2"],
          [src_rse_id |-> "id2", dest_rse_id |-> "id1"]}

VARIABLES
    plans,           \* table load_injection_plans: a set of rows
    history,         \* table load_injection_plans_history: a set of rows
    next_uuid,       \* the next identifier generate_uuid returns
    pc,              \* per process: position in the call it serves
    request,         \* per process: the items of the request as received
                     \* (for a caller of the core: the call's arguments)
    injection_plans, \* per process: the gateway's list after lines 47-55
    present_plans,   \* per process: the gateway's local of line 71
    result,          \* per process: how the gateway call ended
    archived,        \* the plan_id of every plan a history row was written for
    dataset_locks,   \* table dataset_locks: a set of rows
    unique_datasets, \* table load_injection_datasets: a set of rows
    returned,        \* the last call of the selector or the cache, and its result
    response         \* the last response of BulkPlans.post

\* What the gateway and the plan operations of the core leave alone.
selector_vars == <<dataset_locks, unique_datasets, returned>>

vars == <<plans, history, next_uuid, pc, request, injection_plans,
          present_plans, result, archived, dataset_locks, unique_datasets,
          returned, response>>

\* ------------------------------------------------------------ the gateway
\* PreparePlan with state and plan_id set only when the request gave none
\* (plan.setdefault instead of an assignment).
PreparePlanSetdefault(plan, uuid) ==
    [src_rse |-> plan.src_rse, dest_rse |-> plan.dest_rse,
     inject_rate |-> plan.inject_rate,
     src_rse_id |-> get_rse_id(plan.src_rse),
     dest_rse_id |-> get_rse_id(plan.dest_rse),
     state |-> IF plan.state = None THEN WAITING ELSE plan.state,
     plan_id |-> IF plan.plan_id = NoId THEN uuid ELSE plan.plan_id]

\* Lines 47-55, one item: the names resolved, state and plan_id overwritten.
PreparePlan(plan, uuid) ==
    [src_rse |-> plan.src_rse, dest_rse |-> plan.dest_rse,
     inject_rate |-> plan.inject_rate,
     src_rse_id |-> get_rse_id(plan.src_rse),
     dest_rse_id |-> get_rse_id(plan.dest_rse),
     state |-> WAITING,
     plan_id |-> uuid]

\* Lines 47-55, the loop: item i gets the i-th identifier generated.
PreparePlans(items, first_uuid) ==
    [i \in 1..Len(items) |-> PreparePlan(items[i], first_uuid + i - 1)]

\* Lines 48-49, one item: what plan["src_rse"], get_rse_id, plan["dest_rse"]
\* and get_rse_id raise, in that order; None when both names resolve.
ItemError(plan) ==
    IF "src_rse" \notin DOMAIN plan THEN KeyError
    ELSE IF ~RSEKnown(plan.src_rse) THEN RSENotFound
    ELSE IF "dest_rse" \notin DOMAIN plan THEN KeyError
    ELSE IF ~RSEKnown(plan.dest_rse) THEN RSENotFound
    ELSE None

\* The first item of the list whose names do not both resolve, or 0.
FirstUnresolved(items) ==
    LET bad == {i \in 1..Len(items) : ItemError(items[i]) # None}
    IN IF bad = {} THEN 0 ELSE CHOOSE i \in bad : \A j \in bad : i <= j

\* Exist with the two identifiers of the new plan taken the wrong way round.
ExistSwapped(new_plan, present) ==
    \E plan \in present :
        /\ plan.src_rse_id = get_rse_id(new_plan.dest_rse)
        /\ plan.dest_rse_id = get_rse_id(new_plan.src_rse)

\* Exist with the pair taken without its direction: a plan of the reversed
\* pair counts as present.
ExistUnordered(new_plan, present) ==
    \E plan \in present :
        \/ /\ plan.src_rse_id = get_rse_id(new_plan.src_rse)
           /\ plan.dest_rse_id = get_rse_id(new_plan.dest_rse)
        \/ /\ plan.src_rse_id = get_rse_id(new_plan.dest_rse)
           /\ plan.dest_rse_id = get_rse_id(new_plan.src_rse)

\* Lines 74-80: does a present plan have the new plan's pair?
Exist(new_plan, present) ==
    \E plan \in present :
        /\ plan.src_rse_id = get_rse_id(new_plan.src_rse)
        /\ plan.dest_rse_id = get_rse_id(new_plan.dest_rse)

\* models.LoadInjectionPlans(...) of add_injection_plans: the row of a plan.
PlanRow(plan) ==
    [plan_id |-> plan.plan_id, src_rse_id |-> plan.src_rse_id,
     dest_rse_id |-> plan.dest_rse_id, inject_rate |-> plan.inject_rate,
     state |-> plan.state]

\* The key of table load_injection_plans (spec section 2: "keyed by (src,
\* dest) pair plus a generated plan identifier"; section 5: without a
\* serializable transaction two submissions for one pair "both insert").
PlanKey(row) == <<row.src_rse_id, row.dest_rse_id, row.plan_id>>

\* add_injection_plans with every row flushed as it is saved and the
\* transaction not rolled back: the rows before the rejected one are kept.
add_injection_plans_in_turn(table, new_plans) ==
    LET rejected == {i \in 1..Len(new_plans) :
                        \/ \E t \in table :
                              PlanKey(PlanRow(new_plans[i])) = PlanKey(t)
                        \/ \E j \in 1..(i - 1) :
                              PlanKey(PlanRow(new_plans[i]))
                                  = PlanKey(PlanRow(new_plans[j]))}
    IN IF rejected = {}
       THEN [raised |-> None,
             table |-> table \cup {PlanRow(new_plans[i]) :
                                      i \in 1..Len(new_plans)}]
       ELSE LET k == CHOOSE i \in rejected : \A j \in rejected : i <= j
            IN [raised |-> RucioException,
                table |-> table \cup {PlanRow(new_plans[i]) :
                                         i \in 1..(k - 1)}]

\* core add_injection_plans, one transaction: every row saved, then one
\* flush; a key the table already holds, or holds twice in the list, is an
\* IntegrityError, raised as RucioException with nothing kept.
add_injection_plans(table, new_plans) ==
    LET rows == {PlanRow(new_plans[i]) : i \in 1..Len(new_plans)}
        clash == \/ \E r \in rows : \E t \in table : PlanKey(r) = PlanKey(t)
                 \/ \E i, j \in 1..Len(new_plans) :
                        i # j /\ PlanKey(PlanRow(new_plans[i])) =
                                 PlanKey(PlanRow(new_plans[j]))
    IN IF clash THEN [raised |-> RucioException, table |-> table]
       ELSE [raised |-> None, table |-> table \cup rows]

\* CheckAndAdd with each plan checked and saved in turn: the plans before
\* the first duplicate are in the table when the call raises.
CheckAndAddInTurn(table, new_plans, present) ==
    LET dup == {i \in 1..Len(new_plans) : Exist(new_plans[i], present)} IN
    IF dup = {} THEN add_injection_plans(table, new_plans)
    ELSE LET k == CHOOSE i \in dup : \A j \in dup : i <= j IN
         [raised |-> DuplicateLoadInjectionPlan,
          table |-> table \cup {PlanRow(new_plans[i]) : i \in 1..(k - 1)}]

\* Lines 72-87: the duplicate check of every new plan against the plans
\* read at line 71, then the insert.
CheckAndAdd(table, new_plans, present) ==
    IF \E i \in 1..Len(new_plans) : Exist(new_plans[i], present)
    THEN [raised |-> DuplicateLoadInjectionPlan, table |-> table]
    ELSE add_injection_plans(table, new_plans)

\* Prepare without lines 57-69: the call goes on to line 71 whoever the
\* issuer is.
PrepareUnchecked(items, issuer, first_uuid) ==
    LET k == FirstUnresolved(items) IN
    IF k # 0
    THEN [raised |-> ItemError(items[k]), injection_plans |-> <<>>,
          next_uuid |-> first_uuid + (k - 1)]
    ELSE [raised |-> None,
          injection_plans |-> PreparePlans(items, first_uuid),
          next_uuid |-> first_uuid + Len(items)]

\* Lines 47-69 of add_load_injection_plans: how the call stands after the
\* names are resolved and the identifiers generated item by item, and the
\* permission is checked.  `raised` is None when the call goes on to line 71.
Prepare(items, issuer, first_uuid) ==
    LET k == FirstUnresolved(items) IN
    IF k # 0
    THEN [raised |-> ItemError(items[k]), injection_plans |-> <<>>,
          next_uuid |-> first_uuid + (k - 1)]
    ELSE [raised |-> IF has_permission(issuer, "add_load_injection_plans")
                     THEN None ELSE AccessDenied,
          injection_plans |-> PreparePlans(items, first_uuid),
          next_uuid |-> first_uuid + Len(items)]

\* BulkPlans.post up to line 69 of the gateway.
Begin(p, items, issuer) ==
    /\ pc[p] = "idle"
    /\ next_uuid + Len(items) - 1 <= MaxUuid
    /\ LET r == Prepare(items, issuer, next_uuid) IN
        /\ request' = [request EXCEPT ![p] = items]
        /\ injection_plans' = [injection_plans EXCEPT ![p] = r.injection_plans]
        /\ next_uuid' = r.next_uuid
        /\ result' = [result EXCEPT ![p] = r.raised]
        /\ pc' = [pc EXCEPT ![p] = IF r.raised = None THEN "read" ELSE "done"]
    /\ UNCHANGED <<plans, history, present_plans, archived, selector_vars, response>>

\* Line 71: present_plans = load_injection.get_injection_plans().
ReadPresent(p) ==
    /\ pc[p] = "read"
    /\ present_plans' = [present_plans EXCEPT ![p] = plans]
    /\ pc' = [pc EXCEPT ![p] = "add"]
    /\ UNCHANGED <<plans, history, next_uuid, request, injection_plans, result>>
    /\ UNCHANGED <<archived, selector_vars, response>>

\* Lines 72-87.
CheckAdd(p) ==
    /\ pc[p] = "add"
    /\ LET r == CheckAndAdd(plans, injection_plans[p], present_plans[p]) IN
        /\ plans' = r.table
        /\ result' = [result EXCEPT ![p] =
                         IF r.raised = None THEN Created ELSE r.raised]
    /\ pc' = [pc EXCEPT ![p] = "done"]
    /\ UNCHANGED <<history, next_uuid, request, injection_plans, present_plans>>
    /\ UNCHANGED <<archived, selector_vars, response>>

\* BulkPlans.post, lines 128-134: the response is sent and the handler's
\* locals are gone.
Respond(p) ==
    /\ pc[p] = "done"
    /\ pc' = [pc EXCEPT ![p] = "idle"]
    /\ request' = [request EXCEPT ![p] = <<>>]
    /\ injection_plans' = [injection_plans EXCEPT ![p] = <<>>]
    /\ present_plans' = [present_plans EXCEPT ![p] = {}]
    /\ result' = [result EXCEPT ![p] = None]
    /\ UNCHANGED <<plans, history, next_uuid, archived, selector_vars, response>>

\* A whole request served with no other call in between: Begin, ReadPresent,
\* CheckAdd and Respond of one process in a row.
Submit(items, issuer) ==
    /\ \A p \in Procs : pc[p] = "idle"
    /\ next_uuid + Len(items) - 1 <= MaxUuid
    /\ LET r == Prepare(items, issuer, next_uuid) IN
        /\ next_uuid' = r.next_uuid
        /\ plans' = IF r.raised # None THEN plans
                    ELSE CheckAndAdd(plans, r.injection_plans, plans).table
    /\ UNCHANGED <<history, pc, request, injection_plans, present_plans, result>>
    /\ UNCHANGED <<archived, selector_vars, response>>

\* BulkPlans.post with the handlers of lines 128-133 in another order: the
\* handler of Exception first.
post_response_generic(raised) ==
    IF raised = None THEN [status |-> 201, body |-> Created, raised |-> raised]
    ELSE [status |-> 406, body |-> raised, raised |-> raised]

\* BulkPlans.post, lines 128-134: the response for the way the gateway call
\* ended (`raised`, None when it returned).
post_response(raised) ==
    IF raised = AccessDenied
    THEN [status |-> 401, body |-> raised, raised |-> raised]
    ELSE IF raised = DuplicateLoadInjectionPlan
    THEN [status |-> 409, body |-> raised, raised |-> raised]
    ELSE IF raised # None
    THEN [status |-> 406, body |-> raised, raised |-> raised]
    ELSE [status |-> 201, body |-> Created, raised |-> raised]

\* BulkPlans.post, lines 120-134, served with no other call in between: the
\* gateway call and the response.
Post(items, issuer) ==
    /\ \A p \in Procs : pc[p] = "idle"
    /\ next_uuid + Len(items) - 1 <= MaxUuid
    /\ LET r == Prepare(items, issuer, next_uuid)
           done == IF r.raised # None
                   THEN [raised |-> r.raised, table |-> plans]
                   ELSE CheckAndAdd(plans, r.injection_plans, plans)
       IN /\ next_uuid' = r.next_uuid
          /\ plans' = done.table
          /\ response' = post_response(done.raised)
    /\ UNCHANGED <<history, pc, request, injection_plans, present_plans,
                   result, archived, selector_vars>>

\* ------------------------------------------------------------ the client
\* LoadInjectionClient.add_load_injection_plan, lines 67-81: the dictionary
\* the client builds from its arguments (the optional arguments, which the
\* gateway does not read, are left out).
ClientItem(src_rse, dst_rse, inject_rate) ==
    [src_rse |-> src_rse, dst_rse |-> dst_rse, inject_rate |-> inject_rate]

\* LoadInjectionClient.add_load_injection_plan, lines 67-82, and
\* add_load_injection_plans, lines 91-102: the list of the one item is
\* posted and served by BulkPlans.post with no other call in between; the
\* client returns True on 201 and raises otherwise.
ClientAddLoadInjectionPlan(src_rse, dst_rse, inject_rate, issuer) ==
    /\ \A p \in Procs : pc[p] = "idle"
    /\ next_uuid <= MaxUuid
    /\ LET items == <<ClientItem(src_rse, dst_rse, inject_rate)>>
           r == Prepare(items, issuer, next_uuid)
           done == IF r.raised # None
                   THEN [raised |-> r.raised, table |-> plans]
                   ELSE CheckAndAdd(plans, r.injection_plans, plans)
           r_ == post_response(done.raised)
       IN /\ next_uuid' = r.next_uuid
          /\ plans' = done.table
          /\ response' = r_
          /\ returned' = [call |-> "add_load_injection_plan",
                          src_rse |-> src_rse, dst_rse |-> dst_rse,
                          issuer |-> issuer,
                          raised |-> IF r_.status = 201 THEN None
                                     ELSE r_.body]
    /\ UNCHANGED <<history, pc, request, injection_plans, present_plans,
                   result, archived, dataset_locks, unique_datasets>>

\* ------------------------------------------------- the core: live plans
\* to_dict() of a row, as get_injection_plans returns it.
to_dict(row) == row

\* get_injection_plans(state), lines 274-282: every row, or those in `state`
\* when one is given.
get_injection_plans(table, state) ==
    IF state # None THEN {to_dict(plan) : plan \in {r \in table : r.state = state}}
    ELSE {to_dict(plan) : plan \in table}

\* delete_injection_plans, lines 512-518: for each item of the list, every
\* row with its (src_rse_id, dest_rse_id) is deleted.
delete_injection_plans(table, pairs) ==
    {row \in table :
        ~\E i \in 1..Len(pairs) :
            /\ row.dest_rse_id = pairs[i].dest_rse_id
            /\ row.src_rse_id = pairs[i].src_rse_id}

DeleteInjectionPlans(pairs) ==
    /\ plans' = delete_injection_plans(plans, pairs)
    /\ UNCHANGED <<history, next_uuid, pc, request, injection_plans,
                   present_plans, result, archived, selector_vars, response>>

\* update_injection_plan_state, lines 535-546: every row of the pair gets
\* the new state, whatever its state was.
update_injection_plan_state(table, src_rse_id, dest_rse_id, new_state) ==
    {IF row.dest_rse_id = dest_rse_id /\ row.src_rse_id = src_rse_id
     THEN [row EXCEPT !.state = new_state]
     ELSE row : row \in table}

UpdateInjectionPlanState(src_rse_id, dest_rse_id, new_state) ==
    /\ plans' = update_injection_plan_state(plans, src_rse_id, dest_rse_id,
                                            new_state)
    /\ UNCHANGED <<history, next_uuid, pc, request, injection_plans,
                   present_plans, result, archived, selector_vars, response>>

\* get_injection_plan_state, lines 563-574: scalar_one_or_none() over the
\* rows of the pair: None without a row, the state of the only row, and
\* MultipleResultsFound when the pair has several rows.
get_injection_plan_state(table, src_rse_id, dest_rse_id) ==
    LET rows == {r \in table : r.dest_rse_id = dest_rse_id
                               /\ r.src_rse_id = src_rse_id}
    IN IF rows = {} THEN None
       ELSE IF Cardinality(rows) = 1
            THEN (CHOOSE r \in rows : TRUE).state
            ELSE "MultipleResultsFound"

\* ---------------------------------------------------- the core: history
\* models.LoadInjectionPlansHistory(...) of add_injection_plans_history,
\* lines 458-473: every column of the plan is passed except plan_id, which
\* the row gets from the column's default (a generated identifier).
HistoryRow(plan, default_id) ==
    [plan_id |-> default_id, src_rse_id |-> plan.src_rse_id,
     dest_rse_id |-> plan.dest_rse_id, inject_rate |-> plan.inject_rate,
     state |-> plan.state]

\* The key of table load_injection_plans_history (spec section 4.4: written
\* once per plan identifier).
HistoryKey(row) == row.plan_id

\* add_injection_plans_history with the rows merged into the table: a record
\* of the same pair gives way to the new one.
add_injection_plans_history_merged(table, old_plans, first_id) ==
    LET rows == {HistoryRow(old_plans[i], first_id + i - 1) :
                    i \in 1..Len(old_plans)}
    IN [raised |-> None,
        table |-> {t \in table :
                      \A r \in rows : ~(/\ r.src_rse_id = t.src_rse_id
                                        /\ r.dest_rse_id = t.dest_rse_id)}
                  \cup rows]

\* add_injection_plans_history, one transaction: every row saved, then one
\* flush; a key already in the table is an IntegrityError, raised as
\* RucioException with nothing kept.
add_injection_plans_history(table, old_plans, first_id) ==
    LET rows == {HistoryRow(old_plans[i], first_id + i - 1) :
                    i \in 1..Len(old_plans)}
        clash == \E r \in rows : \E t \in table : HistoryKey(r) = HistoryKey(t)
    IN IF clash THEN [raised |-> RucioException, table |-> table]
       ELSE [raised |-> None, table |-> table \cup rows]

\* `archived` records, for every row the call writes, the plan_id of the
\* plan it was given (old_plan["plan_id"], which the row does not keep).
AddInjectionPlansHistory(old_plans) ==
    /\ next_uuid + Len(old_plans) - 1 <= MaxUuid
    /\ LET r == add_injection_plans_history(history, old_plans, next_uuid) IN
        /\ history' = r.table
        /\ archived' = IF r.raised # None THEN archived
                       ELSE archived \cup
                            {[plan_id |-> old_plans[i].plan_id,
                              record_id |-> next_uuid + i - 1] :
                                 i \in 1..Len(old_plans)}
    /\ next_uuid' = next_uuid + Len(old_plans)
    /\ UNCHANGED <<plans, pc, request, injection_plans, present_plans, result>>
    /\ UNCHANGED <<selector_vars, response>>

\* --------------------------------------------------- the core: selector
\* The threshold of line 51, and the unit the model counts bytes in: an
\* amount of bytes is the record [e8 |-> q, rest |-> r], q * E8 + r bytes
\* with 0 <= r < E8 (amounts above 2^31 are needed: a dataset of 1000 files
\* passes line 51 only above 10^11 bytes).
E8 == 100000000

Bytes(q, r) == [e8 |-> q, rest |-> r]

\* Line 49: bytes > 0.
Positive(bytes) == bytes.e8 > 0 \/ bytes.rest > 0

\* bytes > E8 * length.
ExceedsE8Times(bytes, length) ==
    bytes.e8 > length \/ (bytes.e8 = length /\ bytes.rest > 0)

\* Line 51 with >= for >.
AverageAtLeast(bytes, length, division) == bytes.e8 >= length

\* Line 51: bytes / length > 100000000, for length >= 1.  The quotient is
\* exact where the backend divides exactly ("true"), and truncated where it
\* divides integers ("floor"): floor(bytes / length) > E8 is
\* bytes >= E8 * length + length.
AverageAbove(bytes, length, division) ==
    IF division = "true"
    THEN ExceedsE8Times(bytes, length)
    ELSE bytes.e8 > length \/ (bytes.e8 = length /\ bytes.rest >= length)

Divisions == {"true", "floor"}

\* The (length, bytes) a lock of the model can have: around the threshold
\* of line 51 and the ends of the range of line 50.
SizeCases ==
    {[length |-> 1, bytes |-> Bytes(1, 1)],
     [length |-> 1, bytes |-> Bytes(1, 0)],
     [length |-> 2, bytes |-> Bytes(2, 1)],
     [length |-> 1000, bytes |-> Bytes(1001, 0)],
     [length |-> 1001, bytes |-> Bytes(1002, 0)],
     [length |-> 0, bytes |-> Bytes(1, 0)],
     [length |-> 1, bytes |-> Bytes(0, 0)]}

Lock(name, rse_id, state, size) ==
    [scope |-> "mc", name |-> name, rse_id |-> rse_id, state |-> state,
     bytes |-> size.bytes, length |-> size.length]

\* The rows table dataset_locks can hold in the model: dataset ds1 at id1 in
\* every size, and ds1 and ds2 in a size that passes, at either endpoint,
\* complete ("O") or replicating ("R").
LockUniverse ==
    {Lock("ds1", "id1", "O", size) : size \in SizeCases}
    \cup {Lock("ds1", "id1", "R", [length |-> 1, bytes |-> Bytes(1, 1)]),
          Lock("ds1", "id2", "O", [length |-> 1, bytes |-> Bytes(1, 1)]),
          Lock("ds2", "id1", "O", [length |-> 1, bytes |-> Bytes(1, 1)]),
          Lock("ds2", "id2", "O", [length |-> 1, bytes |-> Bytes(1, 1)])}

MaxLocks == 2

\* The rule engine writes a lock, or removes one.
LockWritten(lock) ==
    /\ lock \notin dataset_locks
    /\ Cardinality(dataset_locks) < MaxLocks
    /\ dataset_locks' = dataset_locks \cup {lock}
    /\ UNCHANGED <<plans, history, next_uuid, pc, request, injection_plans,
                   present_plans, result, archived, unique_datasets,
                   returned, response>>

LockRemoved(lock) ==
    /\ lock \in dataset_locks
    /\ dataset_locks' = dataset_locks \ {lock}
    /\ UNCHANGED <<plans, history, next_uuid, pc, request, injection_plans,
                   present_plans, result, archived, unique_datasets,
                   returned, response>>

\* scan_unique_rse_pair_datasets without the subquery of lines 53-61: every
\* lock at the source that passes lines 48-52.
scan_without_not_exists(locks, src_rse_id, dest_rse_id, division) ==
    {[scope |-> dataset.scope, name |-> dataset.name,
      bytes |-> dataset.bytes, length |-> dataset.length,
      src_rse_id |-> src_rse_id, dest_rse_id |-> dest_rse_id] :
        dataset \in {lock \in locks :
                        /\ lock.state = "O"
                        /\ Positive(lock.bytes)
                        /\ lock.length >= 1 /\ lock.length <= 1000
                        /\ AverageAbove(lock.bytes, lock.length, division)
                        /\ lock.rse_id = src_rse_id}}

\* scan_unique_rse_pair_datasets, lines 46-81.  The subquery of lines 54-60
\* names no table but dataset_locks and no alias of it, so it has a FROM of
\* its own and its scope and name are compared with themselves: it holds
\* whenever any lock is at dest_rse_id.  The list of lines 69-81 is taken as
\* the set of its dictionaries.
scan_unique_rse_pair_datasets(locks, src_rse_id, dest_rse_id, division) ==
    LET subquery == \E other \in locks :
                        /\ other.scope = other.scope
                        /\ other.name = other.name
                        /\ other.rse_id = dest_rse_id
        query_result == {lock \in locks :
                            /\ lock.state = "O"
                            /\ Positive(lock.bytes)
                            /\ lock.length >= 1 /\ lock.length <= 1000
                            /\ AverageAbove(lock.bytes, lock.length, division)
                            /\ lock.rse_id = src_rse_id
                            /\ ~subquery}
    IN {[scope |-> dataset.scope, name |-> dataset.name,
         bytes |-> dataset.bytes, length |-> dataset.length,
         src_rse_id |-> src_rse_id, dest_rse_id |-> dest_rse_id] :
            dataset \in query_result}

Scan(src_rse_id, dest_rse_id, division) ==
    /\ returned' = [call |-> "scan", raised |-> None,
                    candidates |-> scan_unique_rse_pair_datasets(
                        dataset_locks, src_rse_id, dest_rse_id, division)]
    /\ UNCHANGED <<plans, history, next_uuid, pc, request, injection_plans,
                   present_plans, result, archived, dataset_locks,
                   unique_datasets, response>>

\* Line 64 on a backend that computes the quotient of line 51 for a lock of
\* length 0: the statement fails with a division by zero, which is no
\* IntegrityError and leaves the function as it is.
ScanDivisionByZero(src_rse_id, dest_rse_id) ==
    /\ \E lock \in dataset_locks : lock.length = 0
    /\ returned' = [call |-> "scan", raised |-> "DataError", candidates |-> {}]
    /\ UNCHANGED <<plans, history, next_uuid, pc, request, injection_plans,
                   present_plans, result, archived, dataset_locks,
                   unique_datasets, response>>

\* validate_unique_rse_pair_dataset without the subquery of lines 244-252.
validate_at_source(locks, scope, name, src_rse_id, dest_rse_id) ==
    \E lock \in locks :
        lock.scope = scope /\ lock.name = name /\ lock.rse_id = src_rse_id

\* validate_unique_rse_pair_dataset, lines 238-261: True when the query of
\* lines 239-254 returns a row.
validate_unique_rse_pair_dataset(locks, scope, name, src_rse_id, dest_rse_id) ==
    LET query_result ==
            {lock \in locks :
                /\ lock.scope = scope
                /\ lock.name = name
                /\ lock.rse_id = src_rse_id
                /\ ~\E other \in locks :
                       /\ other.scope = scope
                       /\ other.name = name
                       /\ other.rse_id = dest_rse_id}
    IN query_result # {}

Validate(scope, name, src_rse_id, dest_rse_id) ==
    /\ returned' = [call |-> "validate", raised |-> None,
                    scope |-> scope, name |-> name,
                    src_rse_id |-> src_rse_id, dest_rse_id |-> dest_rse_id,
                    valid |-> validate_unique_rse_pair_dataset(
                        dataset_locks, scope, name, src_rse_id, dest_rse_id)]
    /\ UNCHANGED <<plans, history, next_uuid, pc, request, injection_plans,
                   present_plans, result, archived, dataset_locks,
                   unique_datasets, response>>

\* ------------------------------------------------------ the core: cache
\* models.LoadInjectionDatasets(...), lines 159-166.
DatasetRow(dataset) ==
    [scope |-> dataset.scope, name |-> dataset.name,
     src_rse_id |-> dataset.src_rse_id, dest_rse_id |-> dataset.dest_rse_id,
     bytes |-> dataset.bytes, length |-> dataset.length]

\* The key of table load_injection_datasets (spec section 4.2).
DatasetKey(row) == <<row.src_rse_id, row.dest_rse_id, row.scope, row.name>>

\* add_unique_rse_pair_datasets with a row of a key already there replaced
\* by the new one, and the last of the rows of one key kept.
add_unique_rse_pair_datasets_merged(table, datasets) ==
    LET last == {i \in 1..Len(datasets) :
                    \A j \in (i + 1)..Len(datasets) :
                        DatasetKey(DatasetRow(datasets[j]))
                            # DatasetKey(DatasetRow(datasets[i]))}
        rows == {DatasetRow(datasets[i]) : i \in last}
    IN [raised |-> None,
        table |-> {t \in table :
                      \A r \in rows : DatasetKey(r) # DatasetKey(t)} \cup rows]

\* add_unique_rse_pair_datasets, lines 157-170, one transaction: every row
\* saved, then one flush; a key that is in the table, or twice among the
\* rows, is an IntegrityError, raised as RucioException with nothing kept.
add_unique_rse_pair_datasets(table, datasets) ==
    LET clash ==
            \/ \E i \in 1..Len(datasets) : \E t \in table :
                  DatasetKey(DatasetRow(datasets[i])) = DatasetKey(t)
            \/ \E i, j \in 1..Len(datasets) :
                  /\ i # j
                  /\ DatasetKey(DatasetRow(datasets[i]))
                         = DatasetKey(DatasetRow(datasets[j]))
    IN IF clash THEN [raised |-> RucioException, table |-> table]
       ELSE [raised |-> None,
             table |-> table \cup {DatasetRow(datasets[i]) :
                                      i \in 1..Len(datasets)}]

AddUniqueRsePairDatasets(datasets) ==
    /\ LET r == add_unique_rse_pair_datasets(unique_datasets, datasets) IN
        /\ unique_datasets' = r.table
        /\ returned' = [call |-> "add", raised |-> r.raised,
                        datasets |-> datasets]
    /\ UNCHANGED <<plans, history, next_uuid, pc, request, injection_plans,
                   present_plans, result, archived, dataset_locks, response>>

\* add_unique_rse_pair_dataset, lines 132-144.
AddUniqueRsePairDataset(dataset) == AddUniqueRsePairDatasets(<<dataset>>)

\* delete_unique_rse_pair_datasets with the rows matched by scope and name
\* alone.
delete_unique_rse_pair_datasets_by_name(table, datasets) ==
    {row \in table :
        ~\E i \in 1..Len(datasets) :
            /\ row.scope = datasets[i].scope
            /\ row.name = datasets[i].name}

\* delete_unique_rse_pair_datasets, lines 210-219: for each item of the
\* list, the rows with its src_rse_id, dest_rse_id, scope and name are
\* deleted.
delete_unique_rse_pair_datasets(table, datasets) ==
    {row \in table :
        ~\E i \in 1..Len(datasets) :
            /\ row.src_rse_id = datasets[i].src_rse_id
            /\ row.dest_rse_id = datasets[i].dest_rse_id
            /\ row.scope = datasets[i].scope
            /\ row.name = datasets[i].name}

DeleteUniqueRsePairDatasets(datasets) ==
    /\ unique_datasets' = delete_unique_rse_pair_datasets(unique_datasets,
                                                          datasets)
    /\ returned' = [call |-> "delete", raised |-> None,
                    datasets |-> datasets]
    /\ UNCHANGED <<plans, history, next_uuid, pc, request, injection_plans,
                   present_plans, result, archived, dataset_locks, response>>

\* delete_unique_rse_pair_dataset, lines 186-196.
DeleteUniqueRsePairDataset(dataset) == DeleteUniqueRsePairDatasets(<<dataset>>)

\* get_unique_rse_pair_datasets with the pair taken without its direction.
get_unique_rse_pair_datasets_unordered(table, src_rse_id, dest_rse_id) ==
    {to_dict(dataset) :
        dataset \in {row \in table :
                        \/ /\ row.src_rse_id = src_rse_id
                           /\ row.dest_rse_id = dest_rse_id
                        \/ /\ row.src_rse_id = dest_rse_id
                           /\ row.dest_rse_id = src_rse_id}}

\* get_unique_rse_pair_datasets, lines 97-107.
get_unique_rse_pair_datasets(table, src_rse_id, dest_rse_id) ==
    {to_dict(dataset) :
        dataset \in {row \in table : /\ row.src_rse_id = src_rse_id
                                     /\ row.dest_rse_id = dest_rse_id}}

GetUniqueRsePairDatasets(src_rse_id, dest_rse_id) ==
    /\ returned' = [call |-> "get", raised |-> None,
                    src_rse_id |-> src_rse_id, dest_rse_id |-> dest_rse_id,
                    datasets |-> get_unique_rse_pair_datasets(
                        unique_datasets, src_rse_id, dest_rse_id)]
    /\ UNCHANGED <<plans, history, next_uuid, pc, request, injection_plans,
                   present_plans, result, archived, dataset_locks,
                   unique_datasets, response>>

\* The candidates of the last scan are put in the cache.
CacheCandidates ==
    /\ returned.call = "scan" /\ returned.raised = None
    /\ returned.candidates # {}
    /\ \E datasets \in [1..Cardinality(returned.candidates)
                            -> returned.candidates] :
          /\ \A i, j \in DOMAIN datasets : datasets[i] = datasets[j] => i = j
          /\ AddUniqueRsePairDatasets(datasets)

\* The dictionaries the cache operations of the model are called with: one
\* dataset for a pair, the same dataset with another size, the same dataset
\* for the reversed pair, and another dataset for either pair.
CacheInputs ==
    {[scope |-> "mc", name |-> "ds1", src_rse_id |-> "id1",
      dest_rse_id |-> "id2", bytes |-> Bytes(1, 1), length |-> 1],
     [scope |-> "mc", name |-> "ds1", src_rse_id |-> "id1",
      dest_rse_id |-> "id2", bytes |-> Bytes(2, 1), length |-> 2],
     [scope |-> "mc", name |-> "ds1", src_rse_id |-> "id2",
      dest_rse_id |-> "id1", bytes |-> Bytes(1, 1), length |-> 1],
     [scope |-> "mc", name |-> "ds2", src_rse_id |-> "id1",
      dest_rse_id |-> "id2", bytes |-> Bytes(1, 1), length |-> 1],
     [scope |-> "mc", name |-> "ds2", src_rse_id |-> "id2",
      dest_rse_id |-> "id1", bytes |-> Bytes(1, 1), length |-> 1]}

\* ------------------------------------- callers of update_injection_plan_state
\* A process is about to call update_injection_plan_state(src_rse_id,
\* dest_rse_id, new_state); `seen` is the state the pair's plan is in as the
\* call is made.
BeginUpdate(p, src_rse_id, dest_rse_id, new_state) ==
    /\ pc[p] = "idle"
    /\ request' = [request EXCEPT ![p] =
                      <<[src_rse_id |-> src_rse_id, dest_rse_id |-> dest_rse_id,
                         new_state |-> new_state,
                         seen |-> get_injection_plan_state(
                                      plans, src_rse_id, dest_rse_id)]>>]
    /\ pc' = [pc EXCEPT ![p] = "update"]
    /\ UNCHANGED <<plans, history, next_uuid, injection_plans, present_plans,
                   result, archived, selector_vars, response>>

\* Lines 535-548, one transaction: the UPDATE is executed and the call
\* returns None.
WriteUpdate(p) ==
    /\ pc[p] = "update"
    /\ plans' = update_injection_plan_state(plans, request[p][1].src_rse_id,
                                            request[p][1].dest_rse_id,
                                            request[p][1].new_state)
    /\ result' = [result EXCEPT ![p] = "returned"]
    /\ pc' = [pc EXCEPT ![p] = "done"]
    /\ UNCHANGED <<history, next_uuid, request, injection_plans, present_plans,
                   archived, selector_vars, response>>

\* ------------------------------------------------ the core: bulk writes
\* add_injection_plans called with a list whose plan_id values are the
\* caller's.
AddInjectionPlans(new_plans) ==
    /\ LET r == add_injection_plans(plans, new_plans) IN
        /\ plans' = r.table
        /\ returned' = [call |-> "add_plans", raised |-> r.raised,
                        injection_plans |-> new_plans]
    /\ UNCHANGED <<history, next_uuid, pc, request, injection_plans,
                   present_plans, result, archived, dataset_locks,
                   unique_datasets, response>>

\* The plans add_injection_plans is called with in the model: a plan, a plan
\* with the same key and another rate, and a plan of another pair.
PlanInputs ==
    {[plan_id |-> 1, src_rse_id |-> "id1", dest_rse_id |-> "id2",
      inject_rate |-> 100, state |-> WAITING],
     [plan_id |-> 1, src_rse_id |-> "id1", dest_rse_id |-> "id2",
      inject_rate |-> 50, state |-> WAITING],
     [plan_id |-> 2, src_rse_id |-> "id2", dest_rse_id |-> "id1",
      inject_rate |-> 100, state |-> WAITING]}

Init ==
    /\ plans = {}
    /\ history = {}
    /\ next_uuid = 1
    /\ pc = [p \in Procs |-> "idle"]
    /\ request = [p \in Procs |-> <<>>]
    /\ injection_plans = [p \in Procs |-> <<>>]
    /\ present_plans = [p \in Procs |-> {}]
    /\ result = [p \in Procs |-> None]
    /\ archived = {}
    /\ dataset_locks = {}
    /\ unique_datasets = {}
    /\ returned = [call |-> None]
    /\ response = [status |-> 0, body |-> None, raised |-> None]

\* Concurrent submitters and removals.
Next ==
    \/ \E p \in Procs, items \in SeqsUpTo(RequestItems, MaxBatch),
          issuer \in Issuers : Begin(p, items, issuer)
    \/ \E p \in Procs : ReadPresent(p)
    \/ \E p \in Procs : CheckAdd(p)
    \/ \E p \in Procs : Respond(p)
    \/ \E pairs \in SeqsUpTo(Pairs, MaxBatch) : DeleteInjectionPlans(pairs)

Spec == Init /\ [][Next]_vars

\* One call after the other: submissions, state updates, archiving, removals.
NextLifecycle ==
    \/ \E items \in SeqsUpTo(RequestItems, MaxBatch), issuer \in Issuers :
          Submit(items, issuer)
    \/ \E pairs \in SeqsUpTo(Pairs, MaxBatch) : DeleteInjectionPlans(pairs)
    \/ \E pair \in Pairs, new_state \in LoadInjectionState :
          UpdateInjectionPlanState(pair.src_rse_id, pair.dest_rse_id, new_state)
    \/ \E old_plans \in SeqsUpTo(get_injection_plans(plans, None), MaxBatch) :
          AddInjectionPlansHistory(old_plans)

SpecLifecycle == Init /\ [][NextLifecycle]_vars

\* The selector over a ledger the rule engine writes: scans, the caching of
\* their candidates, validations.
NextSelector ==
    \/ \E lock \in LockUniverse : LockWritten(lock)
    \/ \E lock \in LockUniverse : LockRemoved(lock)
    \/ \E pair \in Pairs, division \in Divisions :
          Scan(pair.src_rse_id, pair.dest_rse_id, division)
    \/ \E pair \in Pairs : ScanDivisionByZero(pair.src_rse_id, pair.dest_rse_id)
    \/ CacheCandidates
    \/ \E name \in {"ds1", "ds2"}, pair \in Pairs :
          Validate("mc", name, pair.src_rse_id, pair.dest_rse_id)

SpecSelector == Init /\ [][NextSelector]_vars

\* The operations of the cache, called with lists.
NextCache ==
    \/ \E datasets \in SeqsUpTo(CacheInputs, MaxBatch) :
          AddUniqueRsePairDatasets(datasets)
    \/ \E datasets \in SeqsUpTo(CacheInputs, MaxBatch) :
          DeleteUniqueRsePairDatasets(datasets)
    \/ \E pair \in Pairs :
          GetUniqueRsePairDatasets(pair.src_rse_id, pair.dest_rse_id)

SpecCache == Init /\ [][NextCache]_vars

\* add_injection_plan, lines 320-346: the caller's plan_id (a generated
\* identifier) and state, passed on as a list of one plan.
AddInjectionPlan(src_rse_id, dest_rse_id, inject_rate, state) ==
    /\ next_uuid <= MaxUuid
    /\ plans' = add_injection_plans(plans,
                    <<[plan_id |-> next_uuid, src_rse_id |-> src_rse_id,
                       dest_rse_id |-> dest_rse_id,
                       inject_rate |-> inject_rate, state |-> state]>>).table
    /\ next_uuid' = next_uuid + 1
    /\ UNCHANGED <<history, pc, request, injection_plans, present_plans,
                   result, archived, selector_vars, response>>

\* delete_injection_plan, lines 490-500.
DeleteInjectionPlan(src_rse_id, dest_rse_id) ==
    DeleteInjectionPlans(<<[src_rse_id |-> src_rse_id,
                            dest_rse_id |-> dest_rse_id]>>)

\* add_injection_plan_history, lines 420-443.
AddInjectionPlanHistory(old_plan) == AddInjectionPlansHistory(<<old_plan>>)

\* The identifiers generated in a run of the core's single-item operations.
MaxCoreUuid == 3

\* Every operation of the core, each called with one item.
NextCore ==
    \/ /\ next_uuid <= MaxCoreUuid
       /\ \E pair \in Pairs :
             AddInjectionPlan(pair.src_rse_id, pair.dest_rse_id, 100, WAITING)
    \/ \E pair \in Pairs :
          DeleteInjectionPlan(pair.src_rse_id, pair.dest_rse_id)
    \/ \E pair \in Pairs, new_state \in {RUNNING, CANCELLED} :
          UpdateInjectionPlanState(pair.src_rse_id, pair.dest_rse_id, new_state)
    \/ /\ next_uuid <= MaxCoreUuid
       /\ \E old_plan \in get_injection_plans(plans, None) :
             AddInjectionPlanHistory(old_plan)
    \/ \E dataset \in {d \in CacheInputs : d.name = "ds1"} :
          AddUniqueRsePairDataset(dataset)
    \/ \E dataset \in {d \in CacheInputs : d.name = "ds1"} :
          DeleteUniqueRsePairDataset(dataset)
    \/ \E pair \in Pairs :
          GetUniqueRsePairDatasets(pair.src_rse_id, pair.dest_rse_id)
    \/ \E pair \in Pairs, division \in Divisions :
          Scan(pair.src_rse_id, pair.dest_rse_id, division)
    \/ \E name \in {"ds1", "ds2"}, pair \in Pairs :
          Validate("mc", name, pair.src_rse_id, pair.dest_rse_id)

SpecCore == Init /\ [][NextCore]_vars

\* Requests served one after the other, and removals.
NextRest ==
    \/ \E items \in SeqsUpTo(RequestItems, MaxBatch), issuer \in Issuers :
          Post(items, issuer)
    \/ \E pairs \in SeqsUpTo(Pairs, MaxBatch) : DeleteInjectionPlans(pairs)

SpecRest == Init /\ [][NextRest]_vars

\* Processes that call update_injection_plan_state at the same time, over
\* plans added in state running, one for a pair.
NextUpdaters ==
    \/ \E pair \in Pairs :
          /\ get_injection_plan_state(plans, pair.src_rse_id,
                                      pair.dest_rse_id) = None
          /\ AddInjectionPlan(pair.src_rse_id, pair.dest_rse_id, 100, RUNNING)
    \/ \E p \in Procs, pair \in Pairs, new_state \in {COMPLETED, ERROR} :
          BeginUpdate(p, pair.src_rse_id, pair.dest_rse_id, new_state)
    \/ \E p \in Procs : WriteUpdate(p)
    \/ \E p \in Procs : Respond(p)

SpecUpdaters == Init /\ [][NextUpdaters]_vars

\* The bulk writes of the core, called with lists.
NextBulk ==
    \/ \E new_plans \in SeqsUpTo(PlanInputs, MaxBatch) :
          AddInjectionPlans(new_plans)
    \/ \E old_plans \in SeqsUpTo(get_injection_plans(plans, None), MaxBatch) :
          AddInjectionPlansHistory(old_plans)
    \/ \E datasets \in SeqsUpTo({d \in CacheInputs : d.name = "ds1"}, MaxBatch) :
          AddUniqueRsePairDatasets(datasets)

SpecBulk == Init /\ [][NextBulk]_vars

\* The cache while the rule engine writes the ledger and the selector and
\* the plan operations are called: locks of one dataset and one size, one
\* live plan for a pair.
NextCacheFrame ==
    \/ \E lock \in {l \in LockUniverse :
                        l.name = "ds1" /\ l.bytes = Bytes(1, 1)} :
          LockWritten(lock)
    \/ \E lock \in LockUniverse : LockRemoved(lock)
    \/ \E pair \in Pairs : Scan(pair.src_rse_id, pair.dest_rse_id, "true")
    \/ \E pair \in Pairs : Validate("mc", "ds1", pair.src_rse_id, pair.dest_rse_id)
    \/ CacheCandidates
    \/ \E dataset \in {d \in CacheInputs : d.name = "ds1"} :
          AddUniqueRsePairDataset(dataset)
    \/ \E dataset \in {d \in CacheInputs : d.name = "ds1"} :
          DeleteUniqueRsePairDataset(dataset)
    \/ \E pair \in Pairs :
          GetUniqueRsePairDatasets(pair.src_rse_id, pair.dest_rse_id)
    \/ \E pair \in Pairs :
          /\ next_uuid <= MaxCoreUuid
          /\ get_injection_plan_state(plans, pair.src_rse_id,
                                      pair.dest_rse_id) = None
          /\ AddInjectionPlan(pair.src_rse_id, pair.dest_rse_id, 100, WAITING)
    \/ \E pair \in Pairs :
          UpdateInjectionPlanState(pair.src_rse_id, pair.dest_rse_id, RUNNING)
    \/ \E pair \in Pairs :
          DeleteInjectionPlan(pair.src_rse_id, pair.dest_rse_id)

SpecCacheFrame == Init /\ [][NextCacheFrame]_vars

\* Plans submitted through the client and through requests whose items
\* carry the keys the gateway reads, and removals.
NextClient ==
    \/ \E src_rse, dst_rse \in RSENames, issuer \in Issuers :
          ClientAddLoadInjectionPlan(src_rse, dst_rse, 100, issuer)
    \/ \E items \in SeqsUpTo(RequestItems, MaxBatch), issuer \in Issuers :
          Post(items, issuer)
    \/ \E pairs \in SeqsUpTo(Pairs, MaxBatch) : DeleteInjectionPlans(pairs)

SpecClient == Init /\ [][NextClient]_vars

\* ------------------------------------------------------------- properties
SamePair(a, b) ==
    a.src_rse_id = b.src_rse_id /\ a.dest_rse_id = b.dest_rse_id

\* Process p's list has a plan whose pair a plan read at line 71 has.
Conflicts(p) ==
    \E i \in 1..Len(injection_plans[p]) :
        \E row \in present_plans[p] : SamePair(row, injection_plans[p][i])

\* No plan of process p's list is in the table t.
NoneOfBatchIn(p, t) ==
    \A i \in 1..Len(injection_plans[p]) :
        \A row \in t : row.plan_id # injection_plans[p][i].plan_id

\* C1: in every state reached by submissions (of batches of any size),
\* removals and state updates, called one after the other, the live table
\* holds at most one plan per ordered (src_rse_id, dest_rse_id) pair.
C1_AtMostOnePlanPerPair ==
    \A r1, r2 \in plans : SamePair(r1, r2) => r1 = r2

\* C2: of the submissions that run concurrently for one pair, at most one
\* ends Created: never do two processes both end Created with a plan of the
\* same pair each, both plans in the live table.
C2_OneConcurrentWinner ==
    \A p, q \in Procs :
        (p # q /\ pc[p] = "done" /\ pc[q] = "done"
         /\ result[p] = Created /\ result[q] = Created)
        => ~\E i \in 1..Len(injection_plans[p]), j \in 1..Len(injection_plans[q]) :
               /\ SamePair(injection_plans[p][i], injection_plans[q][j])
               /\ PlanRow(injection_plans[p][i]) \in plans
               /\ PlanRow(injection_plans[q][j]) \in plans

\* C3: the gateway reads the live table as it is (line 71), and a call one
\* of whose plans has the pair of a plan read there ends with
\* DuplicateLoadInjectionPlan, its last step leaving the live table as it was.
C3_DuplicateRejected ==
    [][\A p \in Procs :
          /\ (pc[p] = "read" /\ pc'[p] = "add") => present_plans'[p] = plans
          /\ (pc[p] = "add" /\ pc'[p] = "done" /\ Conflicts(p))
             => (result'[p] = DuplicateLoadInjectionPlan /\ plans' = plans)]_vars

\* A call has ended with DuplicateLoadInjectionPlan and the plan it
\* conflicted with is still in the live table, as it was read.
C3_Witness ==
    \E p \in Procs :
        /\ pc[p] = "done" /\ result[p] = DuplicateLoadInjectionPlan
        /\ \E i \in 1..Len(injection_plans[p]) : \E row \in plans :
              SamePair(row, injection_plans[p][i]) /\ row \in present_plans[p]

\* C4: a call that has a plan conflicting with a plan read at line 71, and
\* any call that fails, has failed as a whole: none of its plans is in the
\* live table, wherever the conflicting plan stands in the list.
C4_AllOrNothing ==
    \A p \in Procs :
        (pc[p] = "done" /\ (Conflicts(p) \/ result[p] # Created))
        => (result[p] # Created /\ NoneOfBatchIn(p, plans))

\* A list of two plans, the first without conflict and the second with one,
\* has been rejected.
C4_Witness ==
    \E p \in Procs :
        /\ pc[p] = "done" /\ result[p] = DuplicateLoadInjectionPlan
        /\ Len(injection_plans[p]) = 2
        /\ ~\E row \in present_plans[p] : SamePair(row, injection_plans[p][1])
        /\ \E row \in present_plans[p] : SamePair(row, injection_plans[p][2])

\* C5: a call by a permitted issuer whose list holds two plans of one pair,
\* no plan read at line 71 having that pair, ends with
\* DuplicateLoadInjectionPlan and adds no plan.
C5_DuplicateWithinBatchRejected ==
    \A p \in Procs :
        (/\ pc[p] = "done" /\ result[p] \notin {AccessDenied, RSENotFound}
         /\ ~Conflicts(p)
         /\ \E i, j \in 1..Len(injection_plans[p]) :
               i # j /\ SamePair(injection_plans[p][i], injection_plans[p][j]))
        => (result[p] = DuplicateLoadInjectionPlan /\ NoneOfBatchIn(p, plans))

\* C6: the step that ends a call with Created adds one row per item of the
\* request, each in state waiting and with an identifier no row of the live
\* table or of the history had before, whatever state and plan_id the item
\* carried; and no two rows of the live table share an identifier.
C6_WaitingWithNewId ==
    [][/\ \A p \in Procs :
            (pc[p] = "add" /\ pc'[p] = "done" /\ result'[p] = Created)
            => /\ Cardinality(plans' \ plans) = Len(request[p])
               /\ \A row \in plans' \ plans :
                     /\ row.state = WAITING
                     /\ \A old \in plans \cup history : old.plan_id # row.plan_id
       /\ \A r1, r2 \in plans' : r1.plan_id = r2.plan_id => r1 = r2]_vars

\* A request item that carried state completed and a plan_id has been
\* stored in state waiting under another identifier.
C6_Witness ==
    \E p \in Procs :
        /\ pc[p] = "done" /\ result[p] = Created
        /\ \E i \in 1..Len(request[p]) : \E row \in plans :
              /\ request[p][i].state = COMPLETED
              /\ request[p][i].plan_id # NoId
              /\ row = PlanRow(injection_plans[p][i])
              /\ row.state = WAITING
              /\ row.plan_id # request[p][i].plan_id

\* C7: the state of a live plan changes only along the edges
\* waiting->running, running->completed, running->error,
\* {waiting,running}->expired and {waiting,running}->cancelled.
C7_TransitionLegality ==
    [][\A r \in plans : \A r2 \in plans' :
          (r2.plan_id = r.plan_id /\ r2.state # r.state)
          => <<r.state, r2.state>> \in
                {<<WAITING, RUNNING>>, <<RUNNING, COMPLETED>>,
                 <<RUNNING, ERROR>>, <<WAITING, EXPIRED>>,
                 <<RUNNING, EXPIRED>>, <<WAITING, CANCELLED>>,
                 <<RUNNING, CANCELLED>>}]_vars

\* C8: every plan in the live table is in state waiting or running.
C8_LiveStates ==
    \A row \in plans : row.state \in {WAITING, RUNNING}

\* The history row h records the plan r: the same pair and the same rate
\* (history rows do not keep the plan's identifier).
IsRecordOf(h, r) ==
    SamePair(h, r) /\ h.inject_rate = r.inject_rate

\* C9: whenever a plan leaves the live table, the history holds exactly one
\* record of it.
C9_HistoryComplete ==
    [][\A r \in plans :
          (\A r2 \in plans' : r2.plan_id # r.plan_id)
          => Cardinality({h \in history' : IsRecordOf(h, r)}) = 1]_vars

\* C10: every row written to the history is equal, attribute by attribute
\* (plan_id and state included), to the live plan it was written for.
C10_HistoryVerbatim ==
    [][\A h \in history' \ history : \E r \in plans : h = to_dict(r)]_vars

\* C11: the history is written once per plan: a call of
\* add_injection_plans_history for a plan a record was already written for
\* is rejected, so that no two records of the history were written for one
\* plan_id.
C11_HistoryWriteOnce ==
    \A a, b \in archived : a.plan_id = b.plan_id => a.record_id = b.record_id

\* C12: the history only grows: no step of the core (adding, deleting or
\* updating live plans, the cache operations, scan, validate, a further
\* archive call) removes a record of the history or changes one.
C12_HistoryAppendOnly ==
    [][history \subseteq history']_vars

\* Two records have been written, the live plans are gone, the cache has
\* been written and the selector has been called since.
C12_Witness ==
    /\ Cardinality(history) >= 2
    /\ plans = {}
    /\ unique_datasets # {}
    /\ returned.call \in {"scan", "validate"}

\* A lock of the dataset (scope, name) at the endpoint rse_id.
LocksOf(scope, name, rse_id) ==
    {lock \in dataset_locks :
        lock.scope = scope /\ lock.name = name /\ lock.rse_id = rse_id}

\* C13: whatever the ledger holds, no candidate that a scan of src to dest
\* (src # dest) returns from it has a lock of its (scope, name) at dest.
C13_CandidateAbsentAtDest ==
    \A pair \in Pairs, division \in Divisions :
        \A c \in scan_unique_rse_pair_datasets(
                     dataset_locks, pair.src_rse_id, pair.dest_rse_id, division) :
            LocksOf(c.scope, c.name, pair.dest_rse_id) = {}

\* A scan has returned a candidate that the ledger still holds at the
\* source, and no lock of it at the destination.
C13_Witness ==
    /\ returned.call = "scan"
    /\ \E c \in returned.candidates :
          /\ LocksOf(c.scope, c.name, c.src_rse_id) # {}
          /\ LocksOf(c.scope, c.name, c.dest_rse_id) = {}

\* C14: whatever the ledger holds, every candidate that a scan of src to
\* dest returns from it has the scope, name, bytes and length of a lock at
\* src in state "O" with 1 <= length <= 1000, bytes > 0 and
\* bytes > 100000000 * length (whichever way the backend divides), and
\* carries src and dest as src_rse_id and dest_rse_id.
C14_CandidateFilters ==
    \A pair \in Pairs, division \in Divisions :
        \A c \in scan_unique_rse_pair_datasets(
                     dataset_locks, pair.src_rse_id, pair.dest_rse_id, division) :
            /\ c.src_rse_id = pair.src_rse_id
            /\ c.dest_rse_id = pair.dest_rse_id
            /\ \E lock \in LocksOf(c.scope, c.name, pair.src_rse_id) :
                  /\ lock.state = "O"
                  /\ lock.length >= 1 /\ lock.length <= 1000
                  /\ Positive(lock.bytes)
                  /\ ExceedsE8Times(lock.bytes, lock.length)
                  /\ c.bytes = lock.bytes /\ c.length = lock.length

\* A scan has returned a dataset of 1000 files and left out one of 1001
\* files that is locked at the same endpoint.
C14_Witness ==
    /\ returned.call = "scan"
    /\ \E c \in returned.candidates :
          /\ c.length = 1000
          /\ \E lock \in dataset_locks :
                /\ lock.rse_id = c.src_rse_id /\ lock.length = 1001
                /\ \A d \in returned.candidates : d.length # 1001

\* C15: whatever the ledger and the cache hold, validate returns False when
\* the ledger has a lock of (scope, name) at dest or none at src; and no
\* call of validate has raised.
C15_StaleCandidateDetected ==
    /\ \A name \in {"ds1", "ds2"}, pair \in Pairs :
          (\/ LocksOf("mc", name, pair.dest_rse_id) # {}
           \/ LocksOf("mc", name, pair.src_rse_id) = {})
          => validate_unique_rse_pair_dataset(
                 dataset_locks, "mc", name, pair.src_rse_id,
                 pair.dest_rse_id) = FALSE
    /\ returned.call = "validate" => returned.raised = None

\* The cache holds a candidate the ledger now has at the destination, and
\* validate has returned False for it.
C15_Witness ==
    /\ returned.call = "validate" /\ returned.valid = FALSE
    /\ \E row \in unique_datasets :
          /\ row.scope = returned.scope /\ row.name = returned.name
          /\ row.src_rse_id = returned.src_rse_id
          /\ row.dest_rse_id = returned.dest_rse_id
    /\ LocksOf(returned.scope, returned.name, returned.src_rse_id) # {}
    /\ LocksOf(returned.scope, returned.name, returned.dest_rse_id) # {}

\* C16: validate returns True only when the ledger has a lock of
\* (scope, name) at src in state "O".
C16_ValidOnlyIfComplete ==
    \A name \in {"ds1", "ds2"}, pair \in Pairs :
        validate_unique_rse_pair_dataset(
            dataset_locks, "mc", name, pair.src_rse_id, pair.dest_rse_id)
        => \E lock \in LocksOf("mc", name, pair.src_rse_id) : lock.state = "O"

\* C17: whatever the cache holds, add_unique_rse_pair_datasets called with a
\* list one of whose keys (src_rse_id, dest_rse_id, scope, name) the cache
\* holds, or two of whose items share a key, raises RucioException and
\* leaves the cache as it was; and the cache never holds two entries of one
\* key.
C17_CacheKeyUnique ==
    /\ \A datasets \in SeqsUpTo(CacheInputs, MaxBatch) :
          (\/ \E i \in 1..Len(datasets) : \E row \in unique_datasets :
                 DatasetKey(DatasetRow(datasets[i])) = DatasetKey(row)
           \/ \E i, j \in 1..Len(datasets) :
                 /\ i # j
                 /\ DatasetKey(DatasetRow(datasets[i]))
                        = DatasetKey(DatasetRow(datasets[j])))
          => add_unique_rse_pair_datasets(unique_datasets, datasets)
                 = [raised |-> RucioException, table |-> unique_datasets]
    /\ \A r1, r2 \in unique_datasets :
          DatasetKey(r1) = DatasetKey(r2) => r1 = r2

\* A list with an entry whose key the cache holds with another size has
\* been rejected, and the cache still holds the entry it had.
C17_Witness ==
    /\ returned.call = "add" /\ returned.raised = RucioException
    /\ \E i \in 1..Len(returned.datasets) : \E row \in unique_datasets :
          /\ DatasetKey(DatasetRow(returned.datasets[i])) = DatasetKey(row)
          /\ row.bytes # returned.datasets[i].bytes

\* C18: every response of the bulk plan POST is one of four: 201 with
\* "Created" when add_load_injection_plans returned, 401 when it raised
\* AccessDenied, 409 when it raised DuplicateLoadInjectionPlan, 406 when it
\* raised anything else.
C18_RestOutcome ==
    response.status # 0
    => /\ response.status \in {201, 401, 409, 406}
       /\ response.status = 201
             <=> (response.raised = None /\ response.body = Created)
       /\ response.status = 401 <=> response.raised = AccessDenied
       /\ response.status = 409 <=> response.raised = DuplicateLoadInjectionPlan
       /\ response.status = 406
             <=> response.raised \notin {None, AccessDenied,
                                         DuplicateLoadInjectionPlan}

\* A request whose endpoint name does not resolve has been answered 406,
\* after a request that was answered 201.
C18_Witness ==
    /\ response.status = 406 /\ response.raised = RSENotFound
    /\ plans # {}

\* C19: a call of add_load_injection_plans by an issuer has_permission
\* denies ends in its first step, leaving the live table, the cache and the
\* history as they were, whatever the list holds; and when has_permission is
\* reached (every name of the list resolves) it ends with AccessDenied.
C19_DeniedWritesNothing ==
    [][\A p \in Procs, issuer \in Issuers :
          (/\ Begin(p, request'[p], issuer)
           /\ ~has_permission(issuer, "add_load_injection_plans"))
          => /\ pc'[p] = "done"
             /\ plans' = plans
             /\ unique_datasets' = unique_datasets
             /\ history' = history
             /\ FirstUnresolved(request'[p]) = 0
                   => result'[p] = AccessDenied]_vars

\* A call whose list holds a plan for a pair that has a live plan has ended
\* with AccessDenied, and none of its plans is in the live table.
C19_Witness ==
    \E p \in Procs :
        /\ pc[p] = "done" /\ result[p] = AccessDenied
        /\ \E i \in 1..Len(injection_plans[p]) : \E row \in plans :
              SamePair(row, injection_plans[p][i])
        /\ NoneOfBatchIn(p, plans)

\* C20: once delete_injection_plans has removed the live plans of a pair, a
\* submission of a plan for that pair by a permitted issuer is accepted and
\* the plan stored, whatever records the history holds for the pair.
C20_UniquenessScopedToLive ==
    [][\A pair \in Pairs :
          (/\ \E row \in plans : SamePair(row, pair)
           /\ \A row \in plans' : ~SamePair(row, pair))
          => \A item \in RequestItems :
                (/\ get_rse_id(item.src_rse) = pair.src_rse_id
                 /\ get_rse_id(item.dest_rse) = pair.dest_rse_id)
                => LET new_plans == PreparePlans(<<item>>, next_uuid)
                       r == CheckAndAdd(plans', new_plans,
                                        get_injection_plans(plans', None))
                   IN /\ r.raised = None
                      /\ PlanRow(new_plans[1]) \in r.table]_vars

\* A plan was archived and removed, and a plan submitted later for the same
\* pair is in the live table.
C20_Witness ==
    \E a \in archived, h \in history, r \in plans :
        /\ h.plan_id = a.record_id /\ SamePair(h, r)
        /\ \A row \in plans : row.plan_id # a.plan_id
        /\ r.plan_id > h.plan_id

\* C21: of two processes that call update_injection_plan_state at the same
\* time for one pair whose plan is running, one with completed and one with
\* error, at most one has its call return: the other fails.
C21_CompareAndSet ==
    \A p, q \in Procs :
        (/\ p # q /\ pc[p] = "done" /\ pc[q] = "done"
         /\ request[p][1].seen = RUNNING /\ request[q][1].seen = RUNNING
         /\ request[p][1].src_rse_id = request[q][1].src_rse_id
         /\ request[p][1].dest_rse_id = request[q][1].dest_rse_id
         /\ request[p][1].new_state = COMPLETED
         /\ request[q][1].new_state = ERROR)
        => ~(result[p] = "returned" /\ result[q] = "returned")

\* C22: whatever the tables hold, a call of add_injection_plans,
\* add_injection_plans_history or add_unique_rse_pair_datasets one of whose
\* rows the store rejects (its key is in the table, or is the key of a row
\* before it in the list) raises RucioException and leaves the table as it
\* was: none of the rows of the call is kept, those before the rejected one
\* included.
C22_BulkAllOrNothing ==
    /\ \A new_plans \in SeqsUpTo(PlanInputs, MaxBatch) :
          (\E i \in 1..Len(new_plans) :
              \/ \E t \in plans : PlanKey(PlanRow(new_plans[i])) = PlanKey(t)
              \/ \E j \in 1..(i - 1) :
                    PlanKey(PlanRow(new_plans[i])) = PlanKey(PlanRow(new_plans[j])))
          => add_injection_plans(plans, new_plans)
                 = [raised |-> RucioException, table |-> plans]
    /\ \A old_plans \in SeqsUpTo(get_injection_plans(plans, None), MaxBatch),
          first_id \in 1..MaxUuid :
          (\E i \in 1..Len(old_plans) : \E t \in history :
              HistoryKey(t) = first_id + i - 1)
          => add_injection_plans_history(history, old_plans, first_id)
                 = [raised |-> RucioException, table |-> history]
    /\ \A datasets \in SeqsUpTo({d \in CacheInputs : d.name = "ds1"}, MaxBatch) :
          (\E i \in 1..Len(datasets) :
              \/ \E t \in unique_datasets :
                    DatasetKey(DatasetRow(datasets[i])) = DatasetKey(t)
              \/ \E j \in 1..(i - 1) :
                    DatasetKey(DatasetRow(datasets[i]))
                        = DatasetKey(DatasetRow(datasets[j])))
          => add_unique_rse_pair_datasets(unique_datasets, datasets)
                 = [raised |-> RucioException, table |-> unique_datasets]

\* add_injection_plans has raised RucioException for a list of two plans,
\* the second with a key the table holds, and the first, which the store
\* would take, is not in the table.
C22_Witness ==
    /\ returned.call = "add_plans" /\ returned.raised = RucioException
    /\ Len(returned.injection_plans) = 2
    /\ \E t \in plans :
          PlanKey(PlanRow(returned.injection_plans[2])) = PlanKey(t)
    /\ \A t \in plans :
          PlanKey(PlanRow(returned.injection_plans[1])) # PlanKey(t)

\* C23: the cache changes only by its put and its delete. A step of any
\* other operation (a write of the ledger, a scan, a validation, a plan
\* operation, a get) leaves the cache as it was; a put that returns adds
\* its rows and a put that raises adds none; a delete removes the rows with
\* the keys it is given; and a get for (src, dest) returns exactly the rows
\* the cache then holds for that ordered pair.
C23_CachePutDeleteOnly ==
    [][LET called == returned' # returned
           added ==
               IF called /\ returned'.call = "add" /\ returned'.raised = None
               THEN {DatasetRow(returned'.datasets[i]) :
                        i \in 1..Len(returned'.datasets)}
               ELSE {}
           removed ==
               IF called /\ returned'.call = "delete"
               THEN {row \in unique_datasets :
                        \E i \in 1..Len(returned'.datasets) :
                            DatasetKey(row) = DatasetKey(returned'.datasets[i])}
               ELSE {}
       IN /\ unique_datasets' = (unique_datasets \ removed) \cup added
          /\ (called /\ returned'.call = "get")
             => returned'.datasets
                    = {row \in unique_datasets' :
                          /\ row.src_rse_id = returned'.src_rse_id
                          /\ row.dest_rse_id = returned'.dest_rse_id}]_vars

\* A get has returned an entry of a pair although the ledger now holds a
\* lock of the entry's dataset at the destination, a plan is live, and the
\* cache holds an entry of the reversed pair, which the get did not return.
C23_Witness ==
    /\ returned.call = "get" /\ returned.datasets # {}
    /\ \E d \in returned.datasets :
          LocksOf(d.scope, d.name, d.dest_rse_id) # {}
    /\ plans # {}
    /\ \E row \in unique_datasets :
          /\ row.src_rse_id = returned.dest_rse_id
          /\ row.dest_rse_id = returned.src_rse_id

\* C24: a call of delete_unique_rse_pair_datasets raises nothing and removes
\* from the cache exactly the rows whose (src_rse_id, dest_rse_id, scope,
\* name) is the key of one of the items it is given: a row of the same
\* dataset for another pair stays, and when none of the keys is cached the
\* cache is as it was.
C24_DeleteByExactKey ==
    [][returned'.call = "delete"
       => LET keys == {DatasetKey(returned'.datasets[i]) :
                          i \in 1..Len(returned'.datasets)}
          IN /\ returned'.raised = None
             /\ unique_datasets'
                    = {row \in unique_datasets : DatasetKey(row) \notin keys}
             /\ \A row \in unique_datasets :
                   (\E i \in 1..Len(returned'.datasets) :
                       /\ row.scope = returned'.datasets[i].scope
                       /\ row.name = returned'.datasets[i].name
                       /\ DatasetKey(row) \notin keys)
                   => row \in unique_datasets'
             /\ (\A row \in unique_datasets : DatasetKey(row) \notin keys)
                => unique_datasets' = unique_datasets]_vars

\* A delete of two keys has returned; the cache still holds the dataset of
\* the first key for the reversed pair, and another dataset for the pair of
\* the first key.
C24_Witness ==
    /\ returned.call = "delete" /\ Len(returned.datasets) = 2
    /\ \E row \in unique_datasets :
          /\ row.scope = returned.datasets[1].scope
          /\ row.name = returned.datasets[1].name
          /\ row.src_rse_id = returned.datasets[1].dest_rse_id
          /\ row.dest_rse_id = returned.datasets[1].src_rse_id
    /\ \E row \in unique_datasets :
          /\ row.name # returned.datasets[1].name
          /\ row.src_rse_id = returned.datasets[1].src_rse_id
          /\ row.dest_rse_id = returned.datasets[1].dest_rse_id

\* C25: a call of the client's add_load_injection_plan by an authorized
\* issuer, for two different known endpoint names whose pair has no live
\* plan as the call is made, returns (raises nothing) and leaves a plan of
\* that pair in the live table.
C25_ClientSubmissionCreated ==
    [][(/\ returned' # returned
        /\ returned'.call = "add_load_injection_plan"
        /\ has_permission(returned'.issuer, "add_load_injection_plans")
        /\ RSEKnown(returned'.src_rse) /\ RSEKnown(returned'.dst_rse)
        /\ returned'.src_rse # returned'.dst_rse
        /\ ~\E row \in plans :
               /\ row.src_rse_id = get_rse_id(returned'.src_rse)
               /\ row.dest_rse_id = get_rse_id(returned'.dst_rse))
       => /\ returned'.raised = None
          /\ \E row \in plans' :
                /\ row.src_rse_id = get_rse_id(returned'.src_rse)
                /\ row.dest_rse_id = get_rse_id(returned'.dst_rse)]_vars

\* C26: whatever the live table holds, update_injection_plan_state(src,
\* dest, s) leaves every row of another pair as it was (the reversed pair
\* included), changes the rows of (src, dest) in their state alone, changes
\* nothing when (src, dest) has no row, and get_injection_plan_state(src,
\* dest) called after it returns s when (src, dest) has a row and None when
\* it has none.
C26_StateUpdateFrame ==
    \A pair \in Pairs, s \in LoadInjectionState :
        LET after == update_injection_plan_state(
                         plans, pair.src_rse_id, pair.dest_rse_id, s)
            hit == {row \in plans : /\ row.src_rse_id = pair.src_rse_id
                                    /\ row.dest_rse_id = pair.dest_rse_id}
        IN /\ after = (plans \ hit) \cup {[row EXCEPT !.state = s] : row \in hit}
           /\ hit = {} => after = plans
           /\ get_injection_plan_state(after, pair.src_rse_id,
                                       pair.dest_rse_id)
                  = IF hit = {} THEN None ELSE s

====
